---- MODULE Spec2Model ----
(***************************************************************************)
(* Model of exercise-14's embedded query engine (database.ts): the record  *)
(* loader, the predicate evaluator, the $and / $or combinators, the $text  *)
(* matcher, sort / projection and Database.find.                           *)
(*                                                                         *)
(* JavaScript values are modelled as records of one shape so that any two  *)
(* of them can be compared: t is the result of typeof, s the characters of *)
(* a string (a tuple of one-character strings), n the value of a number.   *)
(* An object of the store is [id, kv]: id is the object's identity (its    *)
(* position among the loaded records), kv its own properties in insertion  *)
(* order (the order Object.keys / Object.values enumerate).                *)
(***************************************************************************)
EXTENDS Integers, Sequences, FiniteSets, TLC

\* ------------------------------------------------------------------ bounds
MaxNum == 2
MaxLen == 3
MaxTokens == 5

\* ------------------------------------------------------------------ values
Str(s) == [t |-> "string", s |-> s, n |-> 0]
Num(n) == [t |-> "number", s |-> <<>>, n |-> n]
Undefined == [t |-> "undefined", s |-> <<>>, n |-> 0]

typeof(v) == v.t

\* data[key]: the value of the own property key, undefined when there is none.
Get(data, key) ==
    IF \E i \in 1..Len(data.kv) : data.kv[i].k = key
    THEN data.kv[CHOOSE i \in 1..Len(data.kv) : data.kv[i].k = key].v
    ELSE Undefined

\* Object.values(o) of a property list.
Values(kv) == [i \in 1..Len(kv) |-> kv[i].v]

\* (arr.filter(P) is SelectSeq(arr, P): the elements that satisfy P, in the order
\* of arr, as a new sequence.)

\* Number(value): [nan, n].  A number is itself; undefined is NaN; a string is
\* trimmed of white space at both ends and is 0 when nothing is left, its decimal value when it
\* is all digits, NaN otherwise.
Digits == <<"0", "1", "2", "3", "4", "5", "6", "7", "8", "9">>
DigitVal(c) == (CHOOSE i \in 1..10 : Digits[i] = c) - 1
IsDigit(c) == \E i \in 1..10 : Digits[i] = c
RECURSIVE Decimal(_)
Decimal(s) ==
    IF s = <<>> THEN 0
    ELSE 10 * Decimal(SubSeq(s, 1, Len(s) - 1)) + DigitVal(s[Len(s)])
RECURSIVE Trim(_)
Trim(s) ==
    IF s = <<>> THEN s
    ELSE IF Head(s) = " " THEN Trim(Tail(s))
    ELSE IF s[Len(s)] = " " THEN Trim(SubSeq(s, 1, Len(s) - 1))
    ELSE s
Number(value) ==
    CASE typeof(value) = "number" -> [nan |-> FALSE, n |-> value.n]
      [] typeof(value) = "string" ->
            LET body == Trim(value.s)
            IN  IF \A i \in 1..Len(body) : IsDigit(body[i])
                THEN [nan |-> FALSE, n |-> Decimal(body)]
                ELSE [nan |-> TRUE, n |-> 0]
      [] OTHER -> [nan |-> TRUE, n |-> 0]

\* ------------------------------------------------------- predicate evaluator
\* A QueryRule is [has, eq, gt, lt, in]: has is the set of operators that are own
\* properties of the rule object, the other fields their operands.
\* val === value for a string or number val.
op_eq(data, key, value) ==
    LET val == Get(data, key)
    IN  IF typeof(val) = "string" THEN val = value
        ELSE IF typeof(val) = "number" THEN val = value
        ELSE FALSE

\* $gt written with >= for >.
op_gt_orEqual(data, key, value) ==
    LET val == Get(data, key)
    IN  IF typeof(val) = "number"
        THEN ~Number(value).nan /\ val.n >= Number(value).n
        ELSE FALSE

op_gt(data, key, value) ==
    LET val == Get(data, key)
    IN  IF typeof(val) = "number"
        THEN ~Number(value).nan /\ val.n > Number(value).n
        ELSE FALSE

op_lt(data, key, value) ==
    LET val == Get(data, key)
    IN  IF typeof(val) = "number"
        THEN ~Number(value).nan /\ val.n < Number(value).n
        ELSE FALSE

\* value.indexOf(val) > -1 on an array operand: strict equality with an element.
op_in(data, key, value) ==
    LET val == Get(data, key)
    IN  IF typeof(val) = "number" THEN \E i \in 1..Len(value) : value[i] = val
        ELSE IF typeof(val) = "string" THEN \E i \in 1..Len(value) : value[i] = val
        ELSE FALSE

ruleHeadless(data, key, ruleOpt) ==
    IF "$eq" \in ruleOpt.has /\ ~op_eq(data, key, ruleOpt.eq) THEN FALSE
    ELSE IF "$gt" \in ruleOpt.has /\ ~op_gt(data, key, ruleOpt.gt) THEN FALSE
    ELSE IF "$lt" \in ruleOpt.has /\ ~op_lt(data, key, ruleOpt.lt) THEN FALSE
    ELSE IF "$in" \in ruleOpt.has /\ ~op_in(data, key, ruleOpt.in) THEN FALSE
    ELSE TRUE

\* ------------------------------------------------------------- combinators
\* A Param (one element of opts) is a property list of [k, v]: k a field name,
\* v its QueryRule.  rules[i][j] is the closure built for property j of opts[i].
PassesAll(val, param) ==
    \A j \in 1..Len(param) : ruleHeadless(val, param[j].k, param[j].v)

\* $and that looks at the first element of opts only.
op_and_firstOnly(arr, opts) ==
    SelectSeq(arr, LAMBDA val : opts = <<>> \/ PassesAll(val, opts[1]))

op_and(arr, opts) ==
    SelectSeq(arr, LAMBDA val : \A i \in 1..Len(opts) : PassesAll(val, opts[i]))

\* $or whose alternatives need one passing field rule each, not all of them.
op_or_anyRule(arr, opts) ==
    SelectSeq(arr, LAMBDA val :
        \E i \in 1..Len(opts) :
            \E j \in 1..Len(opts[i]) : ruleHeadless(val, opts[i][j].k, opts[i][j].v))

op_or(arr, opts) ==
    SelectSeq(arr, LAMBDA val : \E i \in 1..Len(opts) : PassesAll(val, opts[i]))

\* ------------------------------------------------------------ $text matcher
\* The characters of the model: \w is a letter or a digit, the blank and the
\* hyphen are not.  toLocaleLowerCase maps the capitals to their small letters.
Capitals == <<"A", "B">>
Smalls == <<"a", "b">>
LowerChar(c) ==
    IF \E i \in 1..Len(Capitals) : Capitals[i] = c
    THEN Smalls[CHOOSE i \in 1..Len(Capitals) : Capitals[i] = c]
    ELSE c
toLocaleLowerCase(s) == [i \in 1..Len(s) |-> LowerChar(s[i])]
IsWordChar(c) == c \notin {" ", "-"}

\* \b at index i of s (0-based, between s[i-1] and s[i] of the source; the model's
\* sequences are 1-based): exactly one of the two neighbours is a word character.
IsWordBoundary(s, i) ==
    (i > 0 /\ IsWordChar(s[i])) # (i < Len(s) /\ IsWordChar(s[i + 1]))

\* The pattern \bword\b matches in s at index i.
MatchesAt(s, word, i) ==
    /\ i + Len(word) <= Len(s)
    /\ \A j \in 1..Len(word) : s[i + j] = word[j]
    /\ IsWordBoundary(s, i)
    /\ IsWordBoundary(s, i + Len(word))

\* re.test(s) of a regular expression with the g flag whose lastIndex is lastIndex:
\* the search starts at lastIndex; a match leaves lastIndex at its end, a failure
\* resets lastIndex to 0.  [found, lastIndex].
RegExpTest(word, s, lastIndex) ==
    LET at == {i \in lastIndex..Len(s) : MatchesAt(s, word, i)}
    IN  IF lastIndex > Len(s) \/ at = {}
        THEN [found |-> FALSE, lastIndex |-> 0]
        ELSE LET i == CHOOSE x \in at : \A y \in at : x <= y
             IN  [found |-> TRUE, lastIndex |-> i + Len(word)]

\* Object.values(val).map(...) of the $text branch: every value is tested, in
\* order, with the one regular expression.  [some, lastIndex].
RECURSIVE TestValues(_, _, _)
TestValues(word, values, lastIndex) ==
    IF values = <<>> THEN [some |-> FALSE, lastIndex |-> lastIndex]
    ELSE LET value == Head(values)
             first == IF typeof(value) # "string"
                      THEN [found |-> FALSE, lastIndex |-> lastIndex]
                      ELSE RegExpTest(word, toLocaleLowerCase(value.s), lastIndex)
             rest == TestValues(word, Tail(values), first.lastIndex)
         IN  [some |-> first.found \/ rest.some, lastIndex |-> rest.lastIndex]

\* result.filter(...) of the $text branch, the regular expression's lastIndex
\* being lastIndex when the filter reaches the first element of arr.
RECURSIVE TextFilterFrom(_, _, _)
TextFilterFrom(word, arr, lastIndex) ==
    IF arr = <<>> THEN <<>>
    ELSE LET t == TestValues(word, Values(Head(arr).kv), lastIndex)
         IN  (IF t.some THEN <<Head(arr)>> ELSE <<>>)
                 \o TextFilterFrom(word, Tail(arr), t.lastIndex)

\* The $text branch: a fresh regular expression (lastIndex 0) per call.
TextFilter(arr, text) == TextFilterFrom(toLocaleLowerCase(text), arr, 0)

\* ------------------------------------------------------------ result shaper
\* A ParamEndRule is a property list of [k, v]: k a field name, v the number 1 or
\* -1.  The comparator of sort: Number(opt[v]) * (aVal - bVal); a NaN result is
\* read by Array.prototype.sort as 0.
Compare(a, b, v, dir) ==
    LET aVal == Number(Get(a, v))
        bVal == Number(Get(b, v))
    IN  IF aVal.nan \/ bVal.nan THEN 0 ELSE dir * (aVal.n - bVal.n)

\* A pass that forgets the direction and always sorts ascending.
RECURSIVE SortPassAscending(_, _, _)
SortPassAscending(arr, v, dir) ==
    IF arr = <<>> THEN <<>>
    ELSE LET front == SortPassAscending(SubSeq(arr, 1, Len(arr) - 1), v, dir)
             x == arr[Len(arr)]
             k == Cardinality({i \in 1..Len(front) : Compare(front[i], x, v, 1) <= 0})
         IN  SubSeq(front, 1, k) \o <<x>> \o SubSeq(front, k + 1, Len(front))

\* One arr.sort(comparator): Array.prototype.sort is stable, so the result is the
\* one an insertion sort gives.
RECURSIVE SortPass(_, _, _)
SortPass(arr, v, dir) ==
    IF arr = <<>> THEN <<>>
    ELSE LET front == SortPass(SubSeq(arr, 1, Len(arr) - 1), v, dir)
             x == arr[Len(arr)]
             k == Cardinality({i \in 1..Len(front) : Compare(front[i], x, v, dir) <= 0})
         IN  SubSeq(front, 1, k) \o <<x>> \o SubSeq(front, k + 1, Len(front))

\* sort(arr, opt): the contents of arr after keys.forEach, each pass sorting arr
\* itself.  The array returned is arr.
RECURSIVE sort(_, _)
sort(arr, opt) ==
    IF opt = <<>> THEN arr
    ELSE sort(SortPass(arr, Head(opt).k, Head(opt).v), Tail(opt))

\* projection(arr, opt): a new object per element holding the listed keys, in the
\* listed order (a key the element lacks is copied as undefined).  The id of the
\* new object names the record it was built from.
projection(arr, opt) ==
    [n \in 1..Len(arr) |->
        [id |-> arr[n].id,
         kv |-> [i \in 1..Len(opt) |-> [k |-> opt[i].k, v |-> Get(arr[n], opt[i].k)]]]]

\* ------------------------------------------------------------------- state
\* file     the text of the backing store, as tokens (see Split)
\* pc       per call of find: "idle", "reading" (suspended in readFile),
\*          "resolved" or "rejected"
\* query    per call: the query, a property list of [k, v]
\* options  per call: the EndRule (or none)
\* heap     the arrays of records the process has allocated: heap[a] is the
\*          contents of array a
\* sqlData  per call: the array the load produced (0: none)
\* result   per call: the array the promise resolved with (0: none)
\* steps    per call: the steps find ran, each with the array it was given, that
\*          array's contents before and after the step, and the array it returned
\* error    per call: the error the promise rejected with ("": none)
\* fn, args, ret   a single function applied on its own: its name, its arguments
\*          and what it returned
VARIABLES file, pc, query, options, heap, sqlData, result, steps, error, fn, args, ret

vars == <<file, pc, query, options, heap, sqlData, result, steps, error, fn, args, ret>>

Calls == {1, 2}

\* ------------------------------------------------------------ record loader
\* The text of the store is a sequence of tokens [c, kv]: c is "\n", a tag
\* character ("E", "X"), "{" for the JSON text of one object (kv: its properties)
\* or "?" for text that is not JSON.
Tok(c) == [c |-> c, kv |-> <<>>]
Obj(kv) == [c |-> "{", kv |-> kv]

\* str.split('\n')
RECURSIVE Split(_)
Split(str) ==
    IF \A i \in 1..Len(str) : str[i].c # "\n" THEN <<str>>
    ELSE LET i == CHOOSE x \in 1..Len(str) :
                      str[x].c = "\n" /\ \A y \in 1..(x - 1) : str[y].c # "\n"
         IN  <<SubSeq(str, 1, i - 1)>> \o Split(SubSeq(str, i + 1, Len(str)))

\* A loader that retained every line that is not empty.
IsNotEmpty(v) == Len(v) > 0

\* v[0] === 'E'
IsEntry(v) == Len(v) > 0 /\ v[1].c = "E"

\* JSON.parse(v.slice(1)) throws unless the text is exactly one JSON value.
ParseThrows(v) == ~(Len(v) = 2 /\ v[2].c = "{")
Parse(v) == v[2].kv

\* The lines find retains, and the records it builds from them when every one of
\* them parses: a fresh object per line, in file order.
Retained(str) == SelectSeq(Split(str), IsEntry)
LoadThrows(str) == \E i \in 1..Len(Retained(str)) : ParseThrows(Retained(str)[i])
Load(str) == [i \in 1..Len(Retained(str)) |-> [id |-> i, kv |-> Parse(Retained(str)[i])]]

\* ------------------------------------------------------------ query executor
\* A run of find's body is threaded through r = [heap, sql, cur, log, error]: sql
\* is the array sqlData refers to, cur the array `result` refers to, log the steps
\* so far, error the exception thrown.
\* A query property is [k, v] with v = [t, sets, text, rule]: t is the operand's
\* kind ("object", "array", "string" or "number"), sets the operand of $and / $or,
\* text the operand of $text, rule the QueryRule of a field (an array operand has
\* none of the four operators as a property).
Step(r, op, out, contents) ==
    [op |-> op, in |-> r.cur, out |-> out, before |-> r.heap[r.cur], after |-> contents]

\* result = <a new array holding contents>
NewArray(r, op, contents) ==
    [r EXCEPT !.heap = Append(r.heap, contents),
              !.cur = Len(r.heap) + 1,
              !.log = Append(r.log, Step(r, op, Len(r.heap) + 1, r.heap[r.cur]))]

\* result = <the array itself, now holding contents>
SameArray(r, op, contents) ==
    [r EXCEPT !.heap[r.cur] = contents,
              !.log = Append(r.log, Step(r, op, r.cur, contents))]

\* '$eq' in ruleOpt throws a TypeError when ruleOpt is not an object.
InThrows(v) == v.t \in {"string", "number"}

\* One turn of Object.keys(query).forEach.
ApplyKey(r, p) ==
    LET arr == r.heap[r.cur]
    IN  IF p.k = "$and" THEN NewArray(r, "$and", op_and(arr, p.v.sets))
        ELSE IF p.k = "$or" THEN NewArray(r, "$or", op_or(arr, p.v.sets))
        ELSE IF p.k = "$text" THEN NewArray(r, "$text", TextFilter(arr, p.v.text))
        ELSE IF arr # <<>> /\ InThrows(p.v) THEN [r EXCEPT !.error = "TypeError"]
        ELSE NewArray(r, "field",
                      SelectSeq(arr, LAMBDA val : ruleHeadless(val, p.k, p.v.rule)))

RECURSIVE ApplyKeys(_, _)
ApplyKeys(r, q) ==
    IF q = <<>> \/ r.error # "" THEN r
    ELSE ApplyKeys(ApplyKey(r, Head(q)), Tail(q))

\* An EndRule is [given, sort, projection], sort and projection each [has, opt]:
\* has says the property is there, opt is its ParamEndRule.
endHeadless(r, opts) ==
    LET sorted == IF opts.sort.has
                  THEN SameArray(r, "sort", sort(r.heap[r.cur], opts.sort.opt))
                  ELSE r
    IN  IF opts.projection.has
        THEN NewArray(sorted, "projection",
                      projection(sorted.heap[sorted.cur], opts.projection.opt))
        ELSE sorted

\* A Database that kept the first array it loaded and handed it to later calls.
LoadArrayCached(h, contents) ==
    IF h = <<>>
    THEN [heap |-> <<contents>>, sql |-> 1, cur |-> 1, log |-> <<>>, error |-> ""]
    ELSE [heap |-> h, sql |-> 1, cur |-> 1, log |-> <<>>, error |-> ""]

\* sqlData: the array the load's map() returns, a new one per call.
LoadArray(h, contents) ==
    [heap |-> Append(h, contents), sql |-> Len(h) + 1, cur |-> Len(h) + 1,
     log |-> <<>>, error |-> ""]

\* The body of find from the completion of readFile on, run on heap h.
FindBody(h, str, q, opts) ==
    IF LoadThrows(str)
    THEN [heap |-> h, sql |-> 0, cur |-> 0, log |-> <<>>, error |-> "SyntaxError"]
    ELSE LET filtered == ApplyKeys(LoadArray(h, Load(str)), q)
         IN  IF filtered.error # "" THEN filtered
             ELSE IF opts.given THEN endHeadless(filtered, opts)
             ELSE filtered

\* ------------------------------------------------------------------ actions
\* find(query, options) is called: it suspends in readFile.
Find(c, q, opts) ==
    /\ pc[c] = "idle"
    /\ pc' = [pc EXCEPT ![c] = "reading"]
    /\ query' = [query EXCEPT ![c] = q]
    /\ options' = [options EXCEPT ![c] = opts]
    /\ UNCHANGED <<file, heap, sqlData, result, steps, error, fn, args, ret>>

\* fs.readFile calls back with err: the promise rejects.
ReadError(c) ==
    /\ pc[c] = "reading"
    /\ pc' = [pc EXCEPT ![c] = "rejected"]
    /\ error' = [error EXCEPT ![c] = "EIO"]
    /\ UNCHANGED <<file, query, options, heap, sqlData, result, steps, fn, args, ret>>

\* fs.readFile calls back with the data: the rest of find runs to its end.
ReadData(c) ==
    /\ pc[c] = "reading"
    /\ LET r == FindBody(heap, file, query[c], options[c])
       IN  /\ heap' = r.heap
           /\ steps' = [steps EXCEPT ![c] = r.log]
           /\ error' = [error EXCEPT ![c] = r.error]
           /\ pc' = [pc EXCEPT ![c] = IF r.error = "" THEN "resolved" ELSE "rejected"]
           /\ result' = [result EXCEPT ![c] = IF r.error = "" THEN r.cur ELSE 0]
           /\ sqlData' = [sqlData EXCEPT ![c] = r.sql]
    /\ UNCHANGED <<file, query, options, fn, args, ret>>

\* A function applied on its own to the arguments in args.
Apply_ruleHeadless ==
    /\ fn = ""
    /\ fn' = "ruleHeadless"
    /\ ret' = ruleHeadless(args.data, args.key, args.ruleOpt)
    /\ UNCHANGED <<args, file, pc, query, options, heap, sqlData, result, steps, error>>

Apply_and ==
    /\ fn = ""
    /\ fn' = "$and"
    /\ ret' = op_and(args.arr, args.opts)
    /\ UNCHANGED <<args, file, pc, query, options, heap, sqlData, result, steps, error>>

Apply_or ==
    /\ fn = ""
    /\ fn' = "$or"
    /\ ret' = op_or(args.arr, args.opts)
    /\ UNCHANGED <<args, file, pc, query, options, heap, sqlData, result, steps, error>>

Apply_sort ==
    /\ fn = ""
    /\ fn' = "sort"
    /\ ret' = sort(args.arr, args.opt)
    /\ UNCHANGED <<args, file, pc, query, options, heap, sqlData, result, steps, error>>

\* ------------------------------------------------------------- input values
SeqsUpTo(S, n) == UNION {[1..k -> S] : k \in 0..n}

P(k, v) == [k |-> k, v |-> v]

NoRule == [has |-> {}, eq |-> Undefined, gt |-> Undefined, lt |-> Undefined, in |-> <<>>]
RuleEq(x) == [NoRule EXCEPT !.has = {"$eq"}, !.eq = x]
RuleGt(x) == [NoRule EXCEPT !.has = {"$gt"}, !.gt = x]
RuleLt(x) == [NoRule EXCEPT !.has = {"$lt"}, !.lt = x]
RuleIn(xs) == [NoRule EXCEPT !.has = {"$in"}, !.in = xs]

\* The operands of a query property.
OfRule(rule) == [t |-> "object", sets |-> <<>>, text |-> <<>>, rule |-> rule]
OfSets(sets) == [t |-> "array", sets |-> sets, text |-> <<>>, rule |-> NoRule]
OfText(text) == [t |-> "string", sets |-> <<>>, text |-> text, rule |-> NoRule]
OfNumber == [t |-> "number", sets |-> <<>>, text |-> <<>>, rule |-> NoRule]

NoOptions ==
    [given |-> FALSE, sort |-> [has |-> FALSE, opt |-> <<>>],
     projection |-> [has |-> FALSE, opt |-> <<>>]]
SortBy(opt) == [NoOptions EXCEPT !.given = TRUE, !.sort = [has |-> TRUE, opt |-> opt]]
SortProject(opt, keys) ==
    [given |-> TRUE, sort |-> [has |-> TRUE, opt |-> opt],
     projection |-> [has |-> TRUE, opt |-> keys]]

\* The records of the stores: a name and an age.
Person(name, age) == <<P("name", Str(name)), P("age", Num(age))>>
People ==
    {Person(<<"a">>, 1), Person(<<"A", " ", "b">>, 2), Person(<<"a", "b">>, 0)}

\* The text of a store holding the given records, one 'E' line each.
RECURSIVE StoreOf(_)
StoreOf(kvs) ==
    IF kvs = <<>> THEN <<>>
    ELSE <<Tok("E"), Obj(Head(kvs)), Tok("\n")>> \o StoreOf(Tail(kvs))
Stores == {StoreOf(kvs) : kvs \in SeqsUpTo(People, MaxLen)}

\* Any text of at most MaxTokens tokens.
Tokens == {Tok("\n"), Tok("E"), Tok("X"), Tok("?"),
           Obj(Person(<<"a">>, 1)), Obj(Person(<<"b">>, 2))}
Texts == SeqsUpTo(Tokens, MaxTokens)

AgeOver(n) == P("age", OfRule(RuleGt(Num(n))))

\* ------------------------------------------------------------ specifications
InitFind(files) ==
    /\ file \in files
    /\ pc = [c \in Calls |-> "idle"]
    /\ query = [c \in Calls |-> <<>>]
    /\ options = [c \in Calls |-> NoOptions]
    /\ heap = <<>>
    /\ sqlData = [c \in Calls |-> 0]
    /\ result = [c \in Calls |-> 0]
    /\ steps = [c \in Calls |-> <<>>]
    /\ error = [c \in Calls |-> ""]
    /\ fn = ""
    /\ args = <<>>
    /\ ret = <<>>

\* Two calls of find on one Database, their loads overlapping.
Queries == {<<>>, <<AgeOver(0)>>, <<P("$text", OfText(<<"a">>))>>}
EndRules ==
    {NoOptions, SortBy(<<P("age", -1)>>),
     SortProject(<<P("age", 1)>>, <<P("name", 1)>>)}

Init == InitFind(Stores)
Next ==
    \E c \in Calls :
        \/ \E q \in Queries, opts \in EndRules : Find(c, q, opts)
        \/ ReadError(c)
        \/ ReadData(c)
Spec == Init /\ [][Next]_vars

\* One call of find with queries of every shape, typed or not, and no EndRule.
NameIs(name) == P("name", OfRule(RuleEq(Str(name))))
Phrases == {<<"a">>, <<"A">>, <<"b">>, <<"a", "b">>}
TypedQueries ==
    {<<P("$text", OfText(w))>> : w \in Phrases}
        \cup {<<P("$text", OfText(<<"a">>)), AgeOver(1)>>,
              <<AgeOver(1), P("$text", OfText(<<"a">>))>>,
              <<AgeOver(0), NameIs(<<"a">>)>>,
              <<P("$and", OfSets(<<<<P("age", RuleGt(Num(0)))>>>>)),
                P("$text", OfText(<<"b">>))>>,
              <<P("$or", OfSets(<<<<P("age", RuleGt(Num(1)))>>,
                                  <<P("name", RuleEq(Str(<<"a">>)))>>>>)),
                AgeOver(0)>>}
UntypedQueries ==
    {<<P("$txt", OfText(<<"a">>))>>, <<P("agee", OfNumber)>>,
     <<P("$adn", OfSets(<<<<P("age", RuleGt(Num(1)))>>>>))>>,
     <<AgeOver(1), P("nme", OfText(<<"a">>))>>}

InitQuery == InitFind(Stores)
NextQuery ==
    \/ \E q \in TypedQueries \cup UntypedQueries : Find(1, q, NoOptions)
    \/ ReadError(1)
    \/ ReadData(1)
SpecQuery == InitQuery /\ [][NextQuery]_vars

\* One call of find on a store of any text.
InitLoad == InitFind(Texts)
NextLoad ==
    \/ \E q \in {<<>>, <<AgeOver(1)>>} : Find(1, q, NoOptions)
    \/ ReadError(1)
    \/ ReadData(1)
SpecLoad == InitLoad /\ [][NextLoad]_vars

\* ruleHeadless on its own: a record with at most the field f, and every rule
\* over the operands below, typed or not.
InitUnit(inputs) ==
    /\ args \in inputs
    /\ fn = ""
    /\ ret = <<>>
    /\ file = <<>>
    /\ pc = [c \in Calls |-> "idle"]
    /\ query = [c \in Calls |-> <<>>]
    /\ options = [c \in Calls |-> NoOptions]
    /\ heap = <<>>
    /\ sqlData = [c \in Calls |-> 0]
    /\ result = [c \in Calls |-> 0]
    /\ steps = [c \in Calls |-> <<>>]
    /\ error = [c \in Calls |-> ""]

Numbers == {Num(n) : n \in 0..MaxNum}
FieldValues == Numbers \cup {Str(<<"1">>), Str(<<"a">>)}
Operands == Numbers \cup {Str(<<"1">>), Str(<<"a">>), Str(<<>>), Undefined}
Collections == SeqsUpTo({Num(1), Str(<<"1">>), Str(<<"a">>)}, 2)
Rules ==
    {[has |-> h,
      eq |-> IF "$eq" \in h THEN e ELSE Undefined,
      gt |-> IF "$gt" \in h THEN g ELSE Undefined,
      lt |-> IF "$lt" \in h THEN l ELSE Undefined,
      in |-> IF "$in" \in h THEN c ELSE <<>>] :
        h \in SUBSET {"$eq", "$gt", "$lt", "$in"},
        e \in Operands, g \in Operands, l \in Operands, c \in Collections}
RuleInputs ==
    {[data |-> [id |-> 1, kv |-> kv], key |-> "f", ruleOpt |-> r] :
        kv \in {<<>>} \cup {<<P("f", v)>> : v \in FieldValues}, r \in Rules}

InitRule == InitUnit(RuleInputs)
NextRule == Apply_ruleHeadless
SpecRule == InitRule /\ [][NextRule]_vars

\* $and and $or on their own: arrays of rows with the numeric fields a and b, and
\* opts of at most two Params of at most two field rules each.
Row(a, b) == <<P("a", Num(a)), P("b", Num(b))>>
Rows == {Row(0, 0), Row(1, 0), Row(2, 0), Row(2, 1)}
Arrays == {[i \in 1..Len(kvs) |-> [id |-> i, kv |-> kvs[i]]] : kvs \in SeqsUpTo(Rows, MaxLen)}
RulesOnA == {P("a", RuleGt(Num(0))), P("a", RuleEq(Num(1)))}
RulesOnB == {P("b", RuleLt(Num(1))), P("b", RuleIn(<<Num(1), Num(2)>>))}
Params ==
    {<<>>} \cup {<<r>> : r \in RulesOnA \cup RulesOnB}
        \cup {<<x, y>> : x \in RulesOnA, y \in RulesOnB}
        \cup {<<y, x>> : x \in RulesOnA, y \in RulesOnB}
CombineInputs == {[arr |-> a, opts |-> o] : a \in Arrays, o \in SeqsUpTo(Params, 2)}

InitCombine == InitUnit(CombineInputs)
NextCombine == Apply_and \/ Apply_or
SpecCombine == InitCombine /\ [][NextCombine]_vars

\* sort on its own: the same arrays, and every directive over the fields a and b.
Directions == {1, -1}
Directives ==
    {<<>>} \cup {<<P(k, d)>> : k \in {"a", "b"}, d \in Directions}
        \cup {<<P("a", d), P("b", e)>> : d \in Directions, e \in Directions}
        \cup {<<P("b", d), P("a", e)>> : d \in Directions, e \in Directions}
SortInputs == {[arr |-> a, opt |-> o] : a \in Arrays, o \in Directives}

InitSort == InitUnit(SortInputs)
NextSort == Apply_sort
SpecSort == InitSort /\ [][NextSort]_vars

\* ------------------------------------------------------------------ claims
Done(c) == pc[c] \in {"resolved", "rejected"}

\* What a call of find(q, opts) on the store returns when it is the only call the
\* process ever makes: the error, and the records of the array resolved with.
Alone(str, q, opts) ==
    LET r == FindBody(<<>>, str, q, opts)
    IN  [error |-> r.error, records |-> IF r.error = "" THEN r.heap[r.cur] ELSE <<>>]

\* C3: no step of find mutates its input: after every step the array the step was
\* given holds what it held before the step, and the array the step returns is
\* another array.
C3_NoStepMutatesItsInput ==
    \A c \in Calls :
        /\ \A i \in 1..Len(steps[c]) :
               /\ steps[c][i].after = steps[c][i].before
               /\ steps[c][i].out # steps[c][i].in
        /\ pc[c] = "resolved" => heap[sqlData[c]] = Load(file)

\* C9: a call of find whose load overlapped another call's in any way returns what
\* it returns when run alone on the same store: the same error, or the same records
\* in the same order.
C9_ConcurrentCallsAreIndependent ==
    \A c \in Calls :
        (Done(c) /\ error[c] # "EIO") =>
            /\ error[c] = Alone(file, query[c], options[c]).error
            /\ pc[c] = "resolved" =>
                   heap[result[c]] = Alone(file, query[c], options[c]).records

\* C9's case: call 1 sorted and resolved before call 2, which has no EndRule, and
\* the sort reordered call 1's loaded array, so that the two loaded arrays differ.
C9_Witness ==
    /\ pc[1] = "resolved" /\ pc[2] = "resolved"
    /\ options[1].sort.has /\ ~options[2].given
    /\ query[1] = <<>> /\ query[2] = <<>>
    /\ sqlData[1] < sqlData[2]
    /\ heap[sqlData[1]] # heap[sqlData[2]]

\* A string-typed field value of rec contains a whole-word, case-insensitive match
\* of text.
HasWholeWord(rec, text) ==
    \E j \in 1..Len(rec.kv) :
        /\ typeof(rec.kv[j].v) = "string"
        /\ \E i \in 0..Len(rec.kv[j].v.s) :
               MatchesAt(toLocaleLowerCase(rec.kv[j].v.s), toLocaleLowerCase(text), i)

\* C1: the $text step of find keeps a record if and only if one of its string-typed
\* field values contains a whole-word, case-insensitive match of the phrase,
\* whatever was tested before it in the same call.
C1_TextKeepsExactlyTheMatches ==
    \A c \in Calls : \A i \in 1..Len(steps[c]) :
        steps[c][i].op = "$text" =>
            heap[steps[c][i].out] =
                SelectSeq(steps[c][i].before,
                          LAMBDA rec : HasWholeWord(rec, query[c][i].v.text))

\* The orders the top-level keys of q can be enumerated in.
KeyOrders(q) ==
    {[i \in 1..Len(q) |-> q[f[i]]] :
        f \in {g \in [1..Len(q) -> 1..Len(q)] : \A i, j \in 1..Len(q) : g[i] = g[j] => i = j}}
Ids(arr) == {arr[i].id : i \in 1..Len(arr)}

\* C2: find (with no EndRule) returns the same set of records for every order of
\* the query's top-level keys.
C2_KeyOrderDoesNotMatter ==
    \A c \in Calls :
        (pc[c] = "resolved" /\ query[c] \in TypedQueries) =>
            \A q \in KeyOrders(query[c]) :
                Ids(Alone(file, q, NoOptions).records) = Ids(heap[result[c]])

HasFieldKey(q) == \E i \in 1..Len(q) : q[i].k \notin {"$and", "$or", "$text"}

\* C4: a top-level key that is not $and, $or or $text never makes find fail,
\* whatever its operand is (rule object, string, number, array): when the store
\* was read, the call resolves.
C4_FieldKeyNeverFails ==
    \A c \in Calls :
        (Done(c) /\ HasFieldKey(query[c]) /\ error[c] # "EIO") => pc[c] = "resolved"

\* The lines of a text, read off the text itself: a line starts at the first token
\* and after every "\n", and ends before the next "\n" or with the text.
LineStart(str, i) == i = 1 \/ str[i - 1].c = "\n"
EntryStarts(str) == {i \in 1..Len(str) : LineStart(str, i) /\ str[i].c = "E"}
LineEnd(str, i) ==
    CHOOSE j \in i..Len(str) :
        /\ j = Len(str) \/ str[j + 1].c = "\n"
        /\ \A k \in i..j : str[k].c # "\n"
PayloadParses(str, i) == LineEnd(str, i) = i + 1 /\ str[i + 1].c = "{"
NthEntry(str, n) ==
    CHOOSE i \in EntryStarts(str) : Cardinality({j \in EntryStarts(str) : j <= i}) = n
EntryRecords(str) ==
    [n \in 1..Cardinality(EntryStarts(str)) |->
        [id |-> n, kv |-> str[NthEntry(str, n) + 1].kv]]

RECURSIVE Flatten(_)
Flatten(opts) == IF opts = <<>> THEN <<>> ELSE Head(opts) \o Flatten(Tail(opts))

\* arr filtered by each field rule of rules in turn.
RECURSIVE FilterEach(_, _)
FilterEach(arr, rules) ==
    IF rules = <<>> THEN arr
    ELSE FilterEach(SelectSeq(arr, LAMBDA rec :
                        ruleHeadless(rec, Head(rules).k, Head(rules).v)),
                    Tail(rules))

\* C6: $and returns exactly the records obtained by filtering the array by each
\* field rule of each ruleSet one after another, in any order of the rules, the
\* survivors in input order; with no ruleSet the result is the input.
C6_AndIsSequentialFiltering ==
    fn = "$and" =>
        /\ \A rules \in KeyOrders(Flatten(args.opts)) : ret = FilterEach(args.arr, rules)
        /\ args.opts = <<>> => ret = args.arr

\* C6's case: two ruleSets of two field rules each, which together keep some
\* records and drop others, the first ruleSet alone keeping more.
C6_Witness ==
    /\ fn = "$and"
    /\ Len(args.opts) = 2 /\ Len(args.opts[1]) = 2 /\ Len(args.opts[2]) = 2
    /\ 0 < Len(ret) /\ Len(ret) < Len(FilterEach(args.arr, args.opts[1]))

SomeSetPasses(rec, opts) ==
    \E i \in 1..Len(opts) :
        \A j \in 1..Len(opts[i]) : ruleHeadless(rec, opts[i][j].k, opts[i][j].v)

\* C7: $or keeps a record if and only if some ruleSet has all of its field rules
\* pass on it, the survivors in input order; with no ruleSet the result is empty,
\* and a ruleSet with no field rule is satisfied by every record.
C7_OrKeepsTheRecordsOfSomeRuleSet ==
    fn = "$or" =>
        /\ Ids(ret) = {args.arr[n].id : n \in {m \in 1..Len(args.arr) :
                                                    SomeSetPasses(args.arr[m], args.opts)}}
        /\ \A n \in 1..Len(ret) : ret[n] = args.arr[ret[n].id]
        /\ \A m, n \in 1..Len(ret) : m < n => ret[m].id < ret[n].id
        /\ args.opts = <<>> => ret = <<>>
        /\ (\E i \in 1..Len(args.opts) : args.opts[i] = <<>>) => ret = args.arr

\* C7's case: two ruleSets of two field rules each; a kept record fails the first
\* ruleSet and passes the second, while passing one rule of the first; another
\* record is dropped.
C7_Witness ==
    /\ fn = "$or"
    /\ Len(args.opts) = 2 /\ Len(args.opts[1]) = 2 /\ Len(args.opts[2]) = 2
    /\ Len(ret) < Len(args.arr)
    /\ \E n \in 1..Len(ret) :
           /\ ~PassesAll(ret[n], args.opts[1])
           /\ PassesAll(ret[n], args.opts[2])
           /\ \E j \in 1..2 : ruleHeadless(ret[n], args.opts[1][j].k, args.opts[1][j].v)

\* The last-listed field of a directive and its direction.
Last(opt) == opt[Len(opt)]
Front(opt) == SubSeq(opt, 1, Len(opt) - 1)
SameLast(opt) == {o \in Directives : Len(o) >= 2 /\ Last(o) = Last(opt)}
Position(arr, id) == CHOOSE n \in 1..Len(arr) : arr[n].id = id

\* C8 as stated: with two or more fields listed, the final order of sort is
\* determined by the last-listed field and its direction alone: directives that
\* differ only before the last one give the same final order.
C8_LastFieldAloneDecides ==
    (fn = "sort" /\ Len(args.opt) >= 2) =>
        \A o \in SameLast(args.opt) : sort(args.arr, o) = ret

NoTies(arr, k) ==
    \A m, n \in 1..Len(arr) : m # n => Get(arr[m], k) # Get(arr[n], k)

\* C8 as amended: the final order is non-decreasing (non-increasing for -1) in the
\* last-listed field; records that tie on it keep the order the earlier passes left
\* them in; so directives that differ only before the last one give the same final
\* order when no two records tie on the last-listed field.
C8_LastFieldDecidesUpToTies ==
    (fn = "sort" /\ Len(args.opt) >= 2) =>
        LET k == Last(args.opt).k
            dir == Last(args.opt).v
            earlier == sort(args.arr, Front(args.opt))
        IN  /\ Len(ret) = Len(args.arr) /\ Ids(ret) = Ids(args.arr)
            /\ \A n \in 1..Len(ret) : ret[n] = args.arr[ret[n].id]
            /\ \A m, n \in 1..Len(ret) :
                   m < n => dir * (Get(ret[m], k).n - Get(ret[n], k).n) <= 0
            /\ \A m, n \in 1..Len(ret) :
                   (m < n /\ Get(ret[m], k) = Get(ret[n], k)) =>
                       Position(earlier, ret[m].id) < Position(earlier, ret[n].id)
            /\ NoTies(args.arr, k) =>
                   \A o \in SameLast(args.opt) : sort(args.arr, o) = ret

\* C8's case: two records tie on the last-listed field and the pass before it
\* decided their order: another directive with the same last field orders them
\* the other way; and the last pass moved some record.
C8_Witness ==
    /\ fn = "sort" /\ Len(args.opt) = 2
    /\ ~NoTies(args.arr, Last(args.opt).k)
    /\ \E o \in SameLast(args.opt) : sort(args.arr, o) # ret
    /\ ret # sort(args.arr, Front(args.opt))

\* What the operators of a rule make of a field value val, written out case by
\* case.  Strict: the operand must have the type the operator compares.
IsNumeric(s) == \A i \in 1..Len(Trim(s)) : IsDigit(Trim(s)[i])
EqPasses(val, x) == val.t \in {"string", "number"} /\ x.t = val.t /\ x.s = val.s /\ x.n = val.n
InPasses(val, xs) == \E i \in 1..Len(xs) : EqPasses(val, xs[i])
GtStrict(val, x) == val.t = "number" /\ x.t = "number" /\ val.n > x.n
LtStrict(val, x) == val.t = "number" /\ x.t = "number" /\ val.n < x.n
GtCoerced(val, x) ==
    \/ GtStrict(val, x)
    \/ val.t = "number" /\ x.t = "string" /\ IsNumeric(x.s) /\ val.n > Decimal(Trim(x.s))
LtCoerced(val, x) ==
    \/ LtStrict(val, x)
    \/ val.t = "number" /\ x.t = "string" /\ IsNumeric(x.s) /\ val.n < Decimal(Trim(x.s))

\* C10 as stated: ruleHeadless is true if and only if every operator present in the
\* rule passes; an empty rule is true; an operator whose field is missing or whose
\* operand does not have the field's type (a string given to $gt on a numeric
\* field) is false.
C10_EveryOperatorPassesStrictly ==
    fn = "ruleHeadless" =>
        LET val == Get(args.data, args.key)
            r == args.ruleOpt
        IN  ret <=>
                /\ "$eq" \in r.has => EqPasses(val, r.eq)
                /\ "$gt" \in r.has => GtStrict(val, r.gt)
                /\ "$lt" \in r.has => LtStrict(val, r.lt)
                /\ "$in" \in r.has => InPasses(val, r.in)

\* C10 as amended: the same, except that $gt and $lt compare a numeric field with
\* Number(operand): a string operand that reads as a number (the empty string as 0)
\* is compared as that number, and any other string or undefined operand is false.
C10_EveryOperatorPassesWithCoercion ==
    fn = "ruleHeadless" =>
        LET val == Get(args.data, args.key)
            r == args.ruleOpt
        IN  /\ ret <=>
                   /\ "$eq" \in r.has => EqPasses(val, r.eq)
                   /\ "$gt" \in r.has => GtCoerced(val, r.gt)
                   /\ "$lt" \in r.has => LtCoerced(val, r.lt)
                   /\ "$in" \in r.has => InPasses(val, r.in)
            /\ r.has = {} => ret
            /\ (r.has # {} /\ val.t = "undefined") => ~ret

\* C10's case: a string operand given to $gt on a numeric field passes, together
\* with the other operators of the rule.
C10_Witness ==
    /\ fn = "ruleHeadless"
    /\ args.ruleOpt.has = {"$eq", "$gt", "$lt", "$in"}
    /\ args.ruleOpt.gt.t = "string"
    /\ Get(args.data, args.key).t = "number"
    /\ ret

====
